---- MODULE Spec2Model ----
(***************************************************************************)
(* Model of the orchestrator's flow dispatcher                             *)
(* (internal/service/orchestrator.go: RunPipeline, runCrossPollinator) and *)
(* of the batch runner (cmd/batch-runner main, executePipeline,            *)
(* printSummary).                                                          *)
(*                                                                         *)
(* Every RunPipeline invocation owns one slot of the per-caller variables. *)
(* A collaborator call (FetchContent, RemixContent, PublishContent) is a   *)
(* blocking gRPC call: one action issues it, a second action is its        *)
(* return, whose outcome the environment chooses.                          *)
(***************************************************************************)
EXTENDS Integers, Sequences, FiniteSets, TLC

(***************************************************************************)
(* Bounds of the model.                                                    *)
(***************************************************************************)
MaxItems == 2
MaxUsers == 2
MaxPipelines == 2
MaxLiveCalls == 2

(***************************************************************************)
(* Program constant: "limit := 1" in runCrossPollinator.                   *)
(***************************************************************************)
limit == 1

Callers == {"c1", "c2"}
BatchCaller == "c1"

(***************************************************************************)
(* Input domains.                                                          *)
(***************************************************************************)
FlowNames == {"cross_pollinator", "trend_jacker", "facebook_echo", "twitter_echo", "bogus"}

ParamValues(k) ==
  CASE k = "query" -> {"", "golang"}
    [] k = "target_platform" -> {"", "twitter"}
    [] k = "access_token" -> {"tok"}

ParamKeys == {"query", "target_platform", "access_token"}

AllParamValues == UNION { ParamValues(k) : k \in ParamKeys }

\* map[string]string values: functions from a set of keys to strings
ParamMaps ==
  UNION { { f \in [K -> AllParamValues] : \A k \in K : f[k] \in ParamValues(k) } : K \in SUBSET ParamKeys }

\* Go's m[k] on a map[string]string: the zero value "" for an absent key
Lookup(m, k) == IF k \in DOMAIN m THEN m[k] ELSE ""

\* *pb.PipelineRequest as built by the callers
Requests == [FlowName : FlowNames, Params : ParamMaps, ModelProvider : {""}]

\* fetcher.ContentItem: SourceId, ContentText and the optional Analysis
\* (a nil *Analysis is HasAnalysis = FALSE)
ItemSet ==
  { [SourceId |-> "p1", ContentText |-> "raw1", HasAnalysis |-> FALSE, Summary |-> ""],
    [SourceId |-> "p2", ContentText |-> "raw2", HasAnalysis |-> TRUE, Summary |-> ""],
    [SourceId |-> "p3", ContentText |-> "raw3", HasAnalysis |-> TRUE, Summary |-> "sum3"] }

SeqsUpTo(S, n) == UNION { [1..k -> S] : k \in 0..n }

FetchResults == SeqsUpTo(ItemSet, MaxItems)

\* errors a collaborator's gRPC client can return
CollabErrors == {"unavailable", "resource_exhausted"}

RemixContents == {"remixA", "remixB"}
PostUrls == {"url1", "url2"}

(***************************************************************************)
(* Go values.                                                              *)
(***************************************************************************)
\* a nil error, a gRPC status error, and fmt.Errorf("...: %w", cause)
NoError == [code |-> "nil", msg |-> "", cause |-> ""]
StatusError(code, msg) == [code |-> code, msg |-> msg, cause |-> ""]
WrapError(msg, cause) == [code |-> "Unknown", msg |-> msg, cause |-> cause]

\* a nil *pb.PipelineResponse and a constructed one; ErrorMessage keeps the
\* zero value of the field unless the code sets it
NilResponse == [nil |-> TRUE]
Response(id, st, urls) ==
  [nil |-> FALSE, PipelineId |-> id, Status |-> st, OutputUrls |-> urls, ErrorMessage |-> ""]

NoReturn == [res |-> NilResponse, err |-> NoError]

NoRequest == [FlowName |-> "", Params |-> <<>>, ModelProvider |-> ""]

VARIABLES
  pc,          \* per caller: where its RunPipeline invocation stands
  req,         \* per caller: the PipelineRequest of the invocation
  fetchRes,    \* per caller: fetchRes.Items
  i,           \* per caller: index of the range loop over fetchRes.Items (1-based)
  remixRes,    \* per caller: remixRes.Content of the item being processed
  outputURLs,  \* per caller: the local slice outputURLs
  ret,         \* per caller: the (response, error) pair RunPipeline returned
  calls        \* per caller: log of the collaborator calls, request and response

flowVars == <<pc, req, fetchRes, i, remixRes, outputURLs, ret, calls>>

\* the state of the batch runner
VARIABLES
  config,      \* config.Users as loaded from users.yaml
  bpc,         \* where the batch runner's main stands
  u,           \* index of the loop over config.Users (1-based)
  p,           \* index of the loop over user.Pipelines (1-based)
  results,     \* the slice of ExecutionResult
  sleeps,      \* log of the time.Sleep calls: the user index each one preceded
  rpcLog,      \* log of the RunPipeline calls of the runner, request and outcome
  summary,     \* the counts printSummary computed
  exitCode     \* the exit status of the process once it ended

batchVars == <<config, bpc, u, p, results, sleeps, rpcLog, summary, exitCode>>

vars == <<flowVars, batchVars>>

(***************************************************************************)
(* The collaborator call log.                                              *)
(***************************************************************************)
Pending == [state |-> "pending", val |-> "", err |-> ""]
Ok(v) == [state |-> "ok", val |-> v, err |-> ""]
Failed(e) == [state |-> "err", val |-> "", err |-> e]

Issue(log, svc, request, item) ==
  Append(log, [svc |-> svc, request |-> request, item |-> item, response |-> Pending])

AnswerLost(log, response) == log

Answer(log, response) ==
  [log EXCEPT ![Len(log)] = [@ EXCEPT !.response = response]]

(***************************************************************************)
(* RunPipeline: the switch on req.FlowName.                                *)
(***************************************************************************)
FlowKindDefaultRuns(flowName) ==
  CASE flowName = "trend_jacker" -> "unimplemented"
    [] flowName = "bogus" -> "unknown"
    [] OTHER -> "cross_pollinator"

FlowKindNoTrendJacker(flowName) ==
  CASE flowName = "cross_pollinator" -> "cross_pollinator"
    [] OTHER -> "unknown"

FlowKind(flowName) ==
  CASE flowName = "cross_pollinator" -> "cross_pollinator"
    [] flowName = "trend_jacker" -> "unimplemented"
    [] OTHER -> "unknown"

MissingParamsAbsentOnly(params) ==
  "query" \notin DOMAIN params \/ "target_platform" \notin DOMAIN params

MissingParamsBoth(params) ==
  Lookup(params, "query") = "" /\ Lookup(params, "target_platform") = ""

\* runCrossPollinator: query == "" || targetPlatform == ""
MissingParams(params) ==
  Lookup(params, "query") = "" \/ Lookup(params, "target_platform") = ""

FetchRequest(params) == [Platform |-> "reddit", Query |-> Lookup(params, "query")]

ContentToRemixRaw(item) == item.ContentText

\* runCrossPollinator: "Use Summary if available, else raw text"
ContentToRemix(item) ==
  IF item.HasAnalysis /\ item.Summary # "" THEN item.Summary ELSE item.ContentText

RemixRequest(item, params) ==
  [OriginalContent |-> ContentToRemix(item),
   SourcePlatform |-> "reddit",
   TargetPlatform |-> Lookup(params, "target_platform"),
   Tone |-> "professional"]

PublishRequestToSource(content, params) ==
  [Content |-> content,
   Platform |-> "reddit",
   Credentials |-> [internal_call |-> "true"]]

PublishRequest(content, params) ==
  [Content |-> content,
   Platform |-> Lookup(params, "target_platform"),
   Credentials |-> [internal_call |-> "true"]]

InLoopOffByOne(k, items) == k <= Len(items) /\ ~(k - 1 > limit)

\* the loop guard: "if i >= limit { break }" together with the range bound
\* (k is the 1-based index of the item)
InLoop(k, items) == k <= Len(items) /\ ~(k - 1 >= limit)

AppendURLDropped(urls, postUrl) == urls

\* outputURLs = append(outputURLs, pubRes.PostUrl)
AppendURL(urls, postUrl) == Append(urls, postUrl)

TypeOK ==
  /\ pc \in [Callers -> {"idle", "run", "fetch", "remix", "publish", "done"}]
  /\ \A c \in Callers : fetchRes[c] \in FetchResults

\* a caller sends a request: the invocation has not started to run yet
Call(c) ==
  /\ pc[c] = "idle"
  /\ \E r \in Requests : req' = [req EXCEPT ![c] = r]
  /\ pc' = [pc EXCEPT ![c] = "run"]
  /\ UNCHANGED <<fetchRes, i, remixRes, outputURLs, ret, calls>>
  /\ UNCHANGED batchVars

\* RunPipeline up to its first blocking call: the dispatch, the parameter check
\* of runCrossPollinator and the FetchContent request
RunPipeline(c) ==
  /\ pc[c] = "run"
  /\ LET kind == FlowKind(req[c].FlowName)
         params == req[c].Params
     IN CASE kind = "unknown" ->
               /\ ret' = [ret EXCEPT ![c] =
                    [res |-> NilResponse, err |-> StatusError("InvalidArgument", "unknown flow")]]
               /\ pc' = [pc EXCEPT ![c] = "done"]
               /\ UNCHANGED calls
          [] kind = "unimplemented" ->
               /\ ret' = [ret EXCEPT ![c] =
                    [res |-> NilResponse,
                     err |-> StatusError("Unimplemented", "trend_jacker not implemented yet")]]
               /\ pc' = [pc EXCEPT ![c] = "done"]
               /\ UNCHANGED calls
          [] kind = "cross_pollinator" /\ MissingParams(params) ->
               /\ ret' = [ret EXCEPT ![c] =
                    [res |-> NilResponse,
                     err |-> StatusError("InvalidArgument", "missing params: query, target_platform")]]
               /\ pc' = [pc EXCEPT ![c] = "done"]
               /\ UNCHANGED calls
          [] kind = "cross_pollinator" /\ ~MissingParams(params) ->
               /\ calls' = [calls EXCEPT ![c] = Issue(@, "Fetch", FetchRequest(params), 0)]
               /\ pc' = [pc EXCEPT ![c] = "fetch"]
               /\ UNCHANGED ret
  /\ UNCHANGED <<req, fetchRes, i, remixRes, outputURLs>>
  /\ UNCHANGED batchVars

LoopHeadRestarts(c, k, items, urls, log) ==
  IF InLoop(k, items)
    THEN /\ calls' = [calls EXCEPT ![c] =
              Issue(log, "Remix", RemixRequest(items[k], req[c].Params), k)]
         /\ pc' = [pc EXCEPT ![c] = "remix"]
         /\ UNCHANGED ret
    ELSE /\ calls' = [calls EXCEPT ![c] = <<>>]
         /\ pc' = [pc EXCEPT ![c] = "run"]
         /\ UNCHANGED ret

LoopHeadSharedSlice(c, k, items, urls, log) ==
  IF InLoop(k, items)
    THEN /\ calls' = [calls EXCEPT ![c] =
              Issue(log, "Remix", RemixRequest(items[k], req[c].Params), k)]
         /\ pc' = [pc EXCEPT ![c] = "remix"]
         /\ UNCHANGED ret
    ELSE /\ calls' = [calls EXCEPT ![c] = log]
         /\ ret' = [ret EXCEPT ![c] =
              [res |-> Response("pipeline-123", "completed",
                                outputURLs[CHOOSE d \in Callers : d # c] \o urls),
               err |-> NoError]]
         /\ pc' = [pc EXCEPT ![c] = "done"]

\* the head of "for i, item := range fetchRes.Items", reached with index k,
\* slice urls and call log: the next item's RemixContent request, or the
\* final return once the loop is left
LoopHead(c, k, items, urls, log) ==
  IF InLoop(k, items)
    THEN /\ calls' = [calls EXCEPT ![c] =
              Issue(log, "Remix", RemixRequest(items[k], req[c].Params), k)]
         /\ pc' = [pc EXCEPT ![c] = "remix"]
         /\ UNCHANGED ret
    ELSE /\ calls' = [calls EXCEPT ![c] = log]
         /\ ret' = [ret EXCEPT ![c] =
              [res |-> Response("pipeline-123", "completed", urls), err |-> NoError]]
         /\ pc' = [pc EXCEPT ![c] = "done"]

FetchFailedRetriesOnce(c, e) ==
  IF Len(calls[c]) < 2
    THEN /\ calls' = [calls EXCEPT ![c] =
              Issue(Answer(@, Failed(e)), "Fetch", FetchRequest(req[c].Params), 0)]
         /\ UNCHANGED <<pc, ret, fetchRes, i, outputURLs>>
    ELSE /\ calls' = [calls EXCEPT ![c] = Answer(@, Failed(e))]
         /\ ret' = [ret EXCEPT ![c] = [res |-> NilResponse, err |-> WrapError("fetch failed", e)]]
         /\ pc' = [pc EXCEPT ![c] = "done"]
         /\ UNCHANGED <<fetchRes, i, outputURLs>>

FetchFailedReturnsBoth(c, e) ==
  /\ calls' = [calls EXCEPT ![c] = Answer(@, Failed(e))]
  /\ ret' = [ret EXCEPT ![c] =
       [res |-> Response("pipeline-123", "failed", <<>>), err |-> WrapError("fetch failed", e)]]
  /\ pc' = [pc EXCEPT ![c] = "done"]
  /\ UNCHANGED <<fetchRes, i, outputURLs>>

FetchFailedSwallowed(c, e) ==
  /\ fetchRes' = [fetchRes EXCEPT ![c] = <<>>]
  /\ LoopHead(c, 1, <<>>, <<>>, Answer(calls[c], Failed(e)))
  /\ UNCHANGED <<i, outputURLs>>

\* "if err != nil { return nil, fmt.Errorf("fetch failed: %w", err) }"
FetchFailed(c, e) ==
  /\ calls' = [calls EXCEPT ![c] = Answer(@, Failed(e))]
  /\ ret' = [ret EXCEPT ![c] = [res |-> NilResponse, err |-> WrapError("fetch failed", e)]]
  /\ pc' = [pc EXCEPT ![c] = "done"]
  /\ UNCHANGED <<fetchRes, i, outputURLs>>

\* FetchContent returns: an error ends the flow, a result enters the loop
FetchReturn(c) ==
  /\ pc[c] = "fetch"
  /\ \/ \E e \in CollabErrors : FetchFailed(c, e)
     \/ \E items \in FetchResults :
          /\ fetchRes' = [fetchRes EXCEPT ![c] = items]
          /\ i' = [i EXCEPT ![c] = 1]
          /\ outputURLs' = [outputURLs EXCEPT ![c] = <<>>]
          /\ LoopHead(c, 1, items, <<>>, Answer(calls[c], Ok(items)))
  /\ UNCHANGED <<req, remixRes>>
  /\ UNCHANGED batchVars

RemixFailedReplacesHead(c, e) ==
  /\ i' = [i EXCEPT ![c] = @ + 1]
  /\ IF i[c] + 1 <= Len(fetchRes[c])
       THEN /\ calls' = [calls EXCEPT ![c] =
                 Issue(Answer(@, Failed(e)), "Remix",
                       RemixRequest(fetchRes[c][i[c] + 1], req[c].Params), i[c] + 1)]
            /\ pc' = [pc EXCEPT ![c] = "remix"]
            /\ UNCHANGED ret
       ELSE LoopHead(c, i[c] + 1, fetchRes[c], outputURLs[c], Answer(calls[c], Failed(e)))

RemixFailedAborts(c, e) ==
  /\ calls' = [calls EXCEPT ![c] = Answer(@, Failed(e))]
  /\ ret' = [ret EXCEPT ![c] = [res |-> NilResponse, err |-> WrapError("remix failed", e)]]
  /\ pc' = [pc EXCEPT ![c] = "done"]
  /\ UNCHANGED i

\* "if err != nil { log.Printf("Remix failed ..."); continue }"
RemixFailed(c, e) ==
  /\ i' = [i EXCEPT ![c] = @ + 1]
  /\ LoopHead(c, i[c] + 1, fetchRes[c], outputURLs[c], Answer(calls[c], Failed(e)))

\* RemixContent returns: an error skips the item, a result is handed to
\* PublishContent
RemixReturn(c) ==
  /\ pc[c] = "remix"
  /\ \/ \E e \in CollabErrors :
          /\ RemixFailed(c, e)
          /\ UNCHANGED remixRes
     \/ \E content \in RemixContents :
          /\ remixRes' = [remixRes EXCEPT ![c] = content]
          /\ calls' = [calls EXCEPT ![c] =
               Issue(Answer(@, Ok(content)), "Publish", PublishRequest(content, req[c].Params), i[c])]
          /\ pc' = [pc EXCEPT ![c] = "publish"]
          /\ UNCHANGED <<i, ret>>
  /\ UNCHANGED <<req, fetchRes, outputURLs>>
  /\ UNCHANGED batchVars

PublishFailedAborts(c, e) ==
  /\ calls' = [calls EXCEPT ![c] = Answer(@, Failed(e))]
  /\ ret' = [ret EXCEPT ![c] = [res |-> NilResponse, err |-> WrapError("publish failed", e)]]
  /\ pc' = [pc EXCEPT ![c] = "done"]
  /\ UNCHANGED <<i, outputURLs>>

\* "if err != nil { log.Printf("Publish failed ..."); continue }"
PublishFailed(c, e) ==
  /\ i' = [i EXCEPT ![c] = @ + 1]
  /\ UNCHANGED outputURLs
  /\ LoopHead(c, i[c] + 1, fetchRes[c], outputURLs[c], Answer(calls[c], Failed(e)))

\* PublishContent returns: an error skips the item, a result appends
\* pubRes.PostUrl to outputURLs; either way the loop goes on
PublishReturn(c) ==
  /\ pc[c] = "publish"
  /\ \/ \E e \in CollabErrors : PublishFailed(c, e)
     \/ \E postUrl \in PostUrls :
          /\ outputURLs' = [outputURLs EXCEPT ![c] = AppendURL(@, postUrl)]
          /\ i' = [i EXCEPT ![c] = @ + 1]
          /\ LoopHead(c, i[c] + 1, fetchRes[c], AppendURL(outputURLs[c], postUrl),
                      Answer(calls[c], Ok(postUrl)))
  /\ UNCHANGED <<req, fetchRes, remixRes>>
  /\ UNCHANGED batchVars

FlowInit ==
  /\ pc = [c \in Callers |-> "idle"]
  /\ req = [c \in Callers |-> NoRequest]
  /\ fetchRes = [c \in Callers |-> <<>>]
  /\ i = [c \in Callers |-> 1]
  /\ remixRes = [c \in Callers |-> ""]
  /\ outputURLs = [c \in Callers |-> <<>>]
  /\ ret = [c \in Callers |-> NoReturn]
  /\ calls = [c \in Callers |-> <<>>]

(***************************************************************************)
(* The batch runner: users.yaml, main, executePipeline, printSummary.      *)
(***************************************************************************)
\* the credentials a users.yaml entry can carry
CredentialMaps ==
  { f \in ParamMaps : DOMAIN f = {"query", "target_platform"} /\ ~MissingParams(f) }
    \cup { f \in ParamMaps : DOMAIN f = {"access_token"} }

BatchFlowNames == {"cross_pollinator", "facebook_echo"}

Pipelines == [Name : BatchFlowNames, Enabled : BOOLEAN]

\* Config.Users: the k-th user has identifier and name k
UserChoices == [Credentials : CredentialMaps, Pipelines : SeqsUpTo(Pipelines, MaxPipelines)]

MakeUser(k, ch) ==
  [ID |-> k, Name |-> k, Platform |-> "facebook",
   Credentials |-> ch.Credentials, Pipelines |-> ch.Pipelines]

Configs ==
  { [k \in 1..Len(chs) |-> MakeUser(k, chs[k])] : chs \in SeqsUpTo(UserChoices, MaxUsers) }

\* the -model flag's default
modelProvider == "gemini"

NoSummary == [success |-> 0, failed |-> 0, skipped |-> 0, total |-> 0]

\* the zero ExecutionResult executePipeline and the skip branch start from
ExecutionResult(user, pipeline) ==
  [UserID |-> user.ID, UserName |-> user.Name, Pipeline |-> pipeline.Name,
   Status |-> "", Error |-> NoError, PostURLs |-> <<>>, Duration |-> 0]

CopyCredentialsReusesMap(credentials) ==
  LET prev == IF rpcLog = <<>> THEN <<>> ELSE rpcLog[Len(rpcLog)].request.Params
  IN [k \in DOMAIN prev \cup DOMAIN credentials |->
        IF k \in DOMAIN credentials THEN credentials[k] ELSE prev[k]]

CopyCredentialsDropsToken(credentials) ==
  [k \in DOMAIN credentials \ {"access_token"} |-> credentials[k]]

\* executePipeline: "Copy all credentials to params"
CopyCredentials(credentials) == [k \in DOMAIN credentials |-> credentials[k]]

BatchRequest(user, pipeline) ==
  [FlowName |-> pipeline.Name, Params |-> CopyCredentials(user.Credentials),
   ModelProvider |-> modelProvider]

PipelineOutcomeDropsCause(user, pipeline, r) ==
  IF r.err # NoError
    THEN [ExecutionResult(user, pipeline) EXCEPT !.Status = "failed"]
    ELSE [ExecutionResult(user, pipeline) EXCEPT !.Status = "success",
                                                 !.PostURLs = r.res.OutputUrls]

PipelineOutcomeEmptyFails(user, pipeline, r) ==
  IF r.err # NoError \/ r.res.OutputUrls = <<>>
    THEN [ExecutionResult(user, pipeline) EXCEPT !.Status = "failed", !.Error = r.err]
    ELSE [ExecutionResult(user, pipeline) EXCEPT !.Status = "success",
                                                 !.PostURLs = r.res.OutputUrls]

PipelineOutcomeCopiesStatus(user, pipeline, r) ==
  IF r.err # NoError
    THEN [ExecutionResult(user, pipeline) EXCEPT !.Status = "failed", !.Error = r.err]
    ELSE [ExecutionResult(user, pipeline) EXCEPT !.Status = r.res.Status,
                                                 !.PostURLs = r.res.OutputUrls]

\* executePipeline after client.RunPipeline returned (res, err)
PipelineOutcome(user, pipeline, r) ==
  IF r.err # NoError
    THEN [ExecutionResult(user, pipeline) EXCEPT !.Status = "failed", !.Error = r.err]
    ELSE [ExecutionResult(user, pipeline) EXCEPT !.Status = "success",
                                                 !.PostURLs = r.res.OutputUrls]

\* time.Since(start) when executePipeline returns, in ticks: one for the
\* RunPipeline round trip and one for every collaborator call the invocation
\* issued meanwhile
Elapsed(log) == 1 + Len(log)

\* the deferred function: "result.Duration = time.Since(start)"
SetDuration(result, elapsed) == [result EXCEPT !.Duration = elapsed]

\* "return result" in a function with an unnamed result: the return statement
\* copies the local variable into the result, then the deferred function
\* assigns to the local variable
ExecutePipelineReturn(result, elapsed) ==
  LET returned == result
      local == SetDuration(result, elapsed)
  IN returned

RecordRetriesOnce(result) ==
  LET again == /\ result.Status = "failed"
               /\ Cardinality({ n \in 1..Len(rpcLog) :
                                  rpcLog[n].user = u /\ rpcLog[n].pipeline = p }) = 1
  IN /\ results' = IF again THEN results ELSE Append(results, result)
     /\ p' = IF again THEN p ELSE p + 1
     /\ bpc' = "pipeline"

RecordPrepends(result) ==
  /\ results' = <<result>> \o results
  /\ p' = p + 1
  /\ bpc' = "pipeline"

RecordStopsOnFailure(result) ==
  /\ results' = Append(results, result)
  /\ p' = p + 1
  /\ bpc' = IF result.Status = "failed" THEN "summary" ELSE "pipeline"

RecordDropsSkipped(result) ==
  /\ results' = IF result.Status = "skipped" THEN results ELSE Append(results, result)
  /\ p' = p + 1
  /\ bpc' = "pipeline"

\* main: results = append(results, result), then the next pipeline
Record(result) ==
  /\ results' = Append(results, result)
  /\ p' = p + 1
  /\ bpc' = "pipeline"

NextUserSleepsFirst(k) ==
  /\ u' = k
  /\ p' = 1
  /\ bpc' = IF k > Len(config) THEN "summary" ELSE IF k - 1 >= 0 THEN "sleep" ELSE "pipeline"

\* the head of "for i, user := range config.Users" reached with index k
NextUser(k) ==
  /\ u' = k
  /\ p' = 1
  /\ bpc' = IF k > Len(config) THEN "summary" ELSE IF k - 1 > 0 THEN "sleep" ELSE "pipeline"

\* the slot of the runner's RunPipeline invocation, free again
FreeSlot(c) ==
  /\ pc' = [pc EXCEPT ![c] = "idle"]
  /\ req' = [req EXCEPT ![c] = NoRequest]
  /\ fetchRes' = [fetchRes EXCEPT ![c] = <<>>]
  /\ i' = [i EXCEPT ![c] = 1]
  /\ remixRes' = [remixRes EXCEPT ![c] = ""]
  /\ outputURLs' = [outputURLs EXCEPT ![c] = <<>>]
  /\ ret' = [ret EXCEPT ![c] = NoReturn]
  /\ calls' = [calls EXCEPT ![c] = <<>>]

ShouldSkipNever(pipeline) == FALSE

\* "if !pipeline.Enabled"
ShouldSkip(pipeline) == ~pipeline.Enabled

AwaitNot ==
  /\ bpc' = "pipeline"
  /\ p' = p + 1
  /\ UNCHANGED <<u, results>>

\* client.RunPipeline is a synchronous call: main stays in executePipeline
\* until it returns
Await ==
  /\ bpc' = "call"
  /\ UNCHANGED <<u, p, results>>

ExitStatusOffByOne(failedCount) == IF failedCount > 1 THEN 1 ELSE 0

\* "if failedCount > 0 { ...; os.Exit(1) }", else main returns
ExitStatus(failedCount) == IF failedCount > 0 THEN 1 ELSE 0

BatchStart ==
  /\ bpc = "start"
  /\ NextUser(1)
  /\ UNCHANGED <<config, results, sleeps, rpcLog, summary, exitCode>>
  /\ UNCHANGED flowVars

\* time.Sleep(15 * time.Second) returns
SleepReturn ==
  /\ bpc = "sleep"
  /\ sleeps' = Append(sleeps, u)
  /\ bpc' = "pipeline"
  /\ UNCHANGED <<config, u, p, results, rpcLog, summary, exitCode>>
  /\ UNCHANGED flowVars

\* the head of "for _, pipeline := range user.Pipelines": the end of the
\* user's list, a disabled entry, or executePipeline up to the RunPipeline call
BatchPipeline ==
  /\ bpc = "pipeline"
  /\ LET user == config[u]
     IN IF p > Len(user.Pipelines)
          THEN /\ NextUser(u + 1)
               /\ UNCHANGED <<results, rpcLog>>
               /\ UNCHANGED flowVars
          ELSE LET pipeline == user.Pipelines[p]
               IN IF ShouldSkip(pipeline)
                    THEN /\ Record([ExecutionResult(user, pipeline) EXCEPT !.Status = "skipped"])
                         /\ UNCHANGED <<u, rpcLog>>
                         /\ UNCHANGED flowVars
                    ELSE /\ req' = [req EXCEPT ![BatchCaller] = BatchRequest(user, pipeline)]
                         /\ pc' = [pc EXCEPT ![BatchCaller] = "run"]
                         /\ rpcLog' = Append(rpcLog,
                              [user |-> u, pipeline |-> p,
                               request |-> BatchRequest(user, pipeline), returned |-> FALSE,
                               ret |-> NoReturn, elapsed |-> 0])
                         /\ Await
                         /\ UNCHANGED <<fetchRes, i, remixRes, outputURLs, ret, calls>>
  /\ UNCHANGED <<config, sleeps, summary, exitCode>>

\* client.RunPipeline returns what the dispatcher returned
BatchReturn ==
  /\ bpc = "call"
  /\ pc[BatchCaller] = "done"
  /\ LET user == config[u]
         pipeline == user.Pipelines[p]
         r == ret[BatchCaller]
         elapsed == Elapsed(calls[BatchCaller])
     IN /\ Record(ExecutePipelineReturn(PipelineOutcome(user, pipeline, r), elapsed))
        /\ rpcLog' = [rpcLog EXCEPT ![Len(rpcLog)] =
             [@ EXCEPT !.returned = TRUE, !.ret = r, !.elapsed = elapsed]]
  /\ FreeSlot(BatchCaller)
  /\ UNCHANGED <<config, u, sleeps, summary, exitCode>>

\* the 120 s deadline of executePipeline's context expires while the call is
\* in flight: the client returns DeadlineExceeded and the invocation is abandoned
BatchDeadline ==
  /\ bpc = "call"
  /\ pc[BatchCaller] # "done"
  /\ LET user == config[u]
         pipeline == user.Pipelines[p]
         r == [res |-> NilResponse,
               err |-> StatusError("DeadlineExceeded", "context deadline exceeded")]
         elapsed == Elapsed(calls[BatchCaller])
     IN /\ Record(ExecutePipelineReturn(PipelineOutcome(user, pipeline, r), elapsed))
        /\ rpcLog' = [rpcLog EXCEPT ![Len(rpcLog)] =
             [@ EXCEPT !.returned = TRUE, !.ret = r, !.elapsed = elapsed]]
  /\ FreeSlot(BatchCaller)
  /\ UNCHANGED <<config, u, sleeps, summary, exitCode>>

CountStatus(rs, st) == Cardinality({ k \in 1..Len(rs) : rs[k].Status = st })

\* printSummary, and the exit status main ends with
PrintSummary ==
  /\ bpc = "summary"
  /\ LET failedCount == CountStatus(results, "failed")
     IN /\ summary' = [success |-> CountStatus(results, "success"),
                       failed |-> failedCount,
                       skipped |-> CountStatus(results, "skipped"),
                       total |-> Len(results)]
        /\ exitCode' = ExitStatus(failedCount)
  /\ bpc' = "exit"
  /\ UNCHANGED <<config, u, p, results, sleeps, rpcLog>>
  /\ UNCHANGED flowVars

BatchOff ==
  /\ config = <<>>
  /\ bpc = "off"
  /\ u = 1
  /\ p = 1
  /\ results = <<>>
  /\ sleeps = <<>>
  /\ rpcLog = <<>>
  /\ summary = NoSummary
  /\ exitCode = 0

BatchInit ==
  /\ config \in Configs
  /\ bpc = "start"
  /\ u = 1
  /\ p = 1
  /\ results = <<>>
  /\ sleeps = <<>>
  /\ rpcLog = <<>>
  /\ summary = NoSummary
  /\ exitCode = 0

(***************************************************************************)
(* Spec: independent callers of the dispatcher, possibly concurrent.       *)
(***************************************************************************)
Init == FlowInit /\ BatchOff

Next ==
  \E c \in Callers :
    \/ Call(c)
    \/ RunPipeline(c)
    \/ FetchReturn(c)
    \/ RemixReturn(c)
    \/ PublishReturn(c)

Spec == Init /\ [][Next]_vars

(***************************************************************************)
(* BatchSpec: the batch runner as the only caller of the dispatcher.       *)
(***************************************************************************)
InitBatch == FlowInit /\ BatchInit

NextBatch ==
  \/ BatchStart
  \/ SleepReturn
  \/ BatchPipeline
  \/ BatchReturn
  \/ BatchDeadline
  \/ PrintSummary
  \/ RunPipeline(BatchCaller)
  \/ FetchReturn(BatchCaller)
  \/ RemixReturn(BatchCaller)
  \/ PublishReturn(BatchCaller)

BatchSpec == InitBatch /\ [][NextBatch]_vars

(***************************************************************************)
(* LiveBatchSpec: BatchSpec with the scheduling the termination argument   *)
(* rests on.  A collaborator call that was issued returns, the goroutine   *)
(* of the handler and the runner's main, once they can take a step, take   *)
(* it, and time.Sleep returns.  Nothing is assumed of the deadline: its    *)
(* expiry stays possible at any time and is never required.                *)
(***************************************************************************)
BatchFairness ==
  /\ WF_vars(RunPipeline(BatchCaller))
  /\ WF_vars(FetchReturn(BatchCaller))
  /\ WF_vars(RemixReturn(BatchCaller))
  /\ WF_vars(PublishReturn(BatchCaller))
  /\ WF_vars(BatchStart)
  /\ WF_vars(SleepReturn)
  /\ WF_vars(BatchPipeline)
  /\ WF_vars(BatchReturn)
  /\ WF_vars(PrintSummary)

\* the enabled entries of a configuration
EnabledIn(cfg) ==
  UNION { { <<k, pp>> : pp \in { q \in 1..Len(cfg[k].Pipelines) : cfg[k].Pipelines[q].Enabled } } :
          k \in 1..Len(cfg) }

\* the configurations with at most MaxLiveCalls enabled entries, so at most
\* that many RunPipeline calls in a run
LiveConfigs == { cfg \in Configs : Cardinality(EnabledIn(cfg)) <= MaxLiveCalls }

InitLive == InitBatch /\ config \in LiveConfigs

LiveBatchSpec == InitLive /\ [][NextBatch]_vars /\ BatchFairness

(***************************************************************************)
(* Properties.                                                             *)
(***************************************************************************)
KnownFlows == {"cross_pollinator", "trend_jacker"}

Returned(c) == pc[c] = "done"

CallsTo(c, svc) == SelectSeq(calls[c], LAMBDA r : r.svc = svc)

CallOf(c, n, svc) == n \in 1..Len(calls[c]) /\ calls[c][n].svc = svc

FetchSucceeded(c) == CallOf(c, 1, "Fetch") /\ calls[c][1].response.state = "ok"

Attempted(c, k) == \E n \in 1..Len(calls[c]) : CallOf(c, n, "Remix") /\ calls[c][n].item = k

ItemFailed(c, k) ==
  \E n \in 1..Len(calls[c]) :
    /\ calls[c][n].svc \in {"Remix", "Publish"}
    /\ calls[c][n].item = k
    /\ calls[c][n].response.state = "err"

ItemPublished(c, k) ==
  \E n \in 1..Len(calls[c]) :
    /\ CallOf(c, n, "Publish")
    /\ calls[c][n].item = k
    /\ calls[c][n].response.state = "ok"

Completed(c) ==
  /\ ret[c].err = NoError
  /\ ret[c].res # NilResponse
  /\ ret[c].res.Status = "completed"

Min(a, b) == IF a < b THEN a ELSE b

\* C1: a request whose flow_name is not known to the dispatcher never issues a
\* collaborator call, and RunPipeline returns no response and an
\* InvalidArgument failure for it.
C1_UnknownFlowRejected ==
  \A c \in Callers :
    pc[c] # "idle" /\ req[c].FlowName \notin KnownFlows =>
      /\ calls[c] = <<>>
      /\ pc[c] \in {"run", "done"}
      /\ Returned(c) =>
           /\ ret[c].res = NilResponse
           /\ ret[c].err.code = "InvalidArgument"

C1_Witness ==
  \E c \in Callers :
    /\ Returned(c)
    /\ req[c].FlowName = "facebook_echo"
    /\ Lookup(req[c].Params, "query") = "golang"
    /\ Lookup(req[c].Params, "target_platform") = "twitter"
    /\ ret[c].err.code = "InvalidArgument"

\* C2: a cross_pollinator request that omits query or target_platform never
\* issues a collaborator call, and RunPipeline returns no response and an
\* InvalidArgument failure for it.
C2_MissingParamRejected ==
  \A c \in Callers :
    /\ pc[c] # "idle"
    /\ req[c].FlowName = "cross_pollinator"
    /\ ("query" \notin DOMAIN req[c].Params \/ "target_platform" \notin DOMAIN req[c].Params)
    => /\ calls[c] = <<>>
       /\ pc[c] \in {"run", "done"}
       /\ Returned(c) =>
            /\ ret[c].res = NilResponse
            /\ ret[c].err.code = "InvalidArgument"

C2_Witness ==
  \E c \in Callers :
    /\ Returned(c)
    /\ req[c].FlowName = "cross_pollinator"
    /\ Lookup(req[c].Params, "query") = "golang"
    /\ "target_platform" \notin DOMAIN req[c].Params
    /\ ret[c].err.code = "InvalidArgument"

\* C3: once the Fetch call of a run failed, the run has returned no response
\* and a failure that wraps the Fetcher's error, and its call log holds the
\* Fetch call alone: no Transform and no Publish call is issued.
C3_FetchFailureAborts ==
  \A c \in Callers :
    CallOf(c, 1, "Fetch") /\ calls[c][1].response.state = "err" =>
      /\ Len(calls[c]) = 1
      /\ Returned(c)
      /\ ret[c].res = NilResponse
      /\ ret[c].err = WrapError("fetch failed", calls[c][1].response.err)

C3_Witness ==
  \E c \in Callers :
    /\ Returned(c)
    /\ CallOf(c, 1, "Fetch")
    /\ calls[c][1].response = Failed("resource_exhausted")
    /\ ret[c].err.cause = "resource_exhausted"

\* C4 as stated: when Transform or Publish failed for an item, the run
\* completes, the item adds nothing to output_urls, and every item that
\* follows it in the Fetch result has been attempted.
C4_LaterItemsAttempted ==
  \A c \in Callers :
    Returned(c) =>
      \A k \in 1..Len(fetchRes[c]) :
        ItemFailed(c, k) =>
          /\ Completed(c)
          /\ Len(ret[c].res.OutputUrls) =
               Cardinality({ j \in 1..Len(fetchRes[c]) : ItemPublished(c, j) })
          /\ ~ItemPublished(c, k)
          /\ \A j \in (k + 1)..Len(fetchRes[c]) : Attempted(c, j)

\* C4 as amended: when Transform or Publish failed for an item, the run
\* completes, the item adds nothing to output_urls, and every item that
\* follows it among the first limit items of the Fetch result has been
\* attempted.
C4_FailedItemSkipped ==
  \A c \in Callers :
    Returned(c) =>
      \A k \in 1..Len(fetchRes[c]) :
        ItemFailed(c, k) =>
          /\ Completed(c)
          /\ Len(ret[c].res.OutputUrls) =
               Cardinality({ j \in 1..Len(fetchRes[c]) : ItemPublished(c, j) })
          /\ ~ItemPublished(c, k)
          /\ \A j \in (k + 1)..Min(limit, Len(fetchRes[c])) : Attempted(c, j)

C4_Witness ==
  \E c \in Callers :
    /\ Returned(c)
    /\ Len(fetchRes[c]) > 1
    /\ ItemFailed(c, 1)
    /\ CallOf(c, 2, "Remix")
    /\ calls[c][2].response.state = "err"
    /\ Completed(c)

\* C5: when Fetch succeeded with zero items, RunPipeline returns a response
\* with status completed, an empty output_urls and a non-empty error_message.
C5_EmptyFetchExplained ==
  \A c \in Callers :
    Returned(c) /\ FetchSucceeded(c) /\ fetchRes[c] = <<>> =>
      /\ Completed(c)
      /\ ret[c].res.OutputUrls = <<>>
      /\ ret[c].res.ErrorMessage # ""

\* C6: in every run the number of Transform calls, the number of Publish
\* calls and the length of output_urls are each at most the flow's limit.
C6_LimitRespected ==
  \A c \in Callers :
    /\ Len(CallsTo(c, "Remix")) <= limit
    /\ Len(CallsTo(c, "Publish")) <= limit
    /\ Len(outputURLs[c]) <= limit
    /\ Returned(c) /\ ret[c].err = NoError => Len(ret[c].res.OutputUrls) <= limit

C6_Witness ==
  \E c \in Callers :
    /\ Returned(c)
    /\ Len(fetchRes[c]) > limit
    /\ Len(CallsTo(c, "Remix")) = limit
    /\ Len(CallsTo(c, "Publish")) = limit
    /\ Len(ret[c].res.OutputUrls) = limit

\* C7: whenever the Fetch call succeeded, RunPipeline returns a response with
\* status completed and no failure, whatever Transform and Publish returned.
C7_CompletedAfterFetch ==
  \A c \in Callers : Returned(c) /\ FetchSucceeded(c) => Completed(c)

C7_Witness ==
  \E c \in Callers :
    /\ Returned(c)
    /\ FetchSucceeded(c)
    /\ fetchRes[c] # <<>>
    /\ CallOf(c, 3, "Publish")
    /\ calls[c][3].response.state = "err"
    /\ Completed(c)
    /\ ret[c].res.OutputUrls = <<>>

\* the locators the successful Publish calls of a run returned, in call order
PublishedUrls(c) ==
  LET ok == SelectSeq(calls[c], LAMBDA r : r.svc = "Publish" /\ r.response.state = "ok")
  IN [k \in 1..Len(ok) |-> ok[k].response.val]

\* C8: the output_urls of a response is the sequence of locators returned by
\* the successful Publish calls of the run, in the order of those calls.
C8_OutputUrlsArePublished ==
  \A c \in Callers :
    Returned(c) /\ ret[c].err = NoError => ret[c].res.OutputUrls = PublishedUrls(c)

C8_Witness ==
  \E c \in Callers :
    /\ Returned(c)
    /\ ret[c].err = NoError
    /\ ret[c].res.OutputUrls = <<"url2">>

\* C9: every Transform call carries the item's summary when the item has an
\* analysis with a non-empty summary, and its raw text otherwise; a
\* cross_pollinator run whose Fetch returned one item with a non-empty summary
\* makes exactly one Transform call, on the summary, and has exactly one entry
\* in output_urls when Publish succeeded.
C9_SummaryPreferred ==
  \A c \in Callers :
    /\ \A n \in 1..Len(calls[c]) :
         CallOf(c, n, "Remix") =>
           LET item == fetchRes[c][calls[c][n].item]
           IN calls[c][n].request.OriginalContent =
                IF item.HasAnalysis /\ item.Summary # "" THEN item.Summary ELSE item.ContentText
    /\ ( /\ Returned(c)
         /\ FetchSucceeded(c)
         /\ Len(fetchRes[c]) = 1
         /\ fetchRes[c][1].HasAnalysis
         /\ fetchRes[c][1].Summary # "" )
       => /\ Len(CallsTo(c, "Remix")) = 1
          /\ CallsTo(c, "Remix")[1].request.OriginalContent = fetchRes[c][1].Summary
          /\ CallsTo(c, "Remix")[1].request.OriginalContent # fetchRes[c][1].ContentText
          /\ ItemPublished(c, 1) => Len(ret[c].res.OutputUrls) = 1

C9_Witness ==
  \E c \in Callers :
    /\ Returned(c)
    /\ req[c].FlowName = "cross_pollinator"
    /\ Lookup(req[c].Params, "query") = "golang"
    /\ Lookup(req[c].Params, "target_platform") = "twitter"
    /\ Len(fetchRes[c]) = 1
    /\ fetchRes[c][1].Summary = "sum3"
    /\ CallOf(c, 2, "Remix")
    /\ calls[c][2].request.OriginalContent = "sum3"
    /\ ItemPublished(c, 1)
    /\ Len(ret[c].res.OutputUrls) = 1

RECURSIVE EntriesBefore(_)
\* the number of pipeline entries of the users before the k-th
EntriesBefore(k) ==
  IF k <= 1 THEN 0 ELSE EntriesBefore(k - 1) + Len(config[k - 1].Pipelines)

EntryIndex(uu, pp) == EntriesBefore(uu) + pp

TotalEntries == EntriesBefore(Len(config) + 1)

\* C10: every RunPipeline failure of the batch runner is recorded, at the
\* position of its pipeline entry, as a result with status failed and the
\* failure as its cause; and the loop is never cut short: when the runner
\* reaches the summary every entry of every user has its result and every
\* enabled entry has had its RunPipeline call.
C10_FailureIsolated ==
  /\ \A n \in 1..Len(rpcLog) :
       rpcLog[n].returned /\ rpcLog[n].ret.err # NoError =>
         LET idx == EntryIndex(rpcLog[n].user, rpcLog[n].pipeline)
         IN /\ idx <= Len(results)
            /\ results[idx].Status = "failed"
            /\ results[idx].Error = rpcLog[n].ret.err
            /\ results[idx].UserID = config[rpcLog[n].user].ID
            /\ results[idx].Pipeline = config[rpcLog[n].user].Pipelines[rpcLog[n].pipeline].Name
  /\ bpc \in {"summary", "exit"} =>
       /\ Len(results) = TotalEntries
       /\ \A uu \in 1..Len(config) :
            \A pp \in 1..Len(config[uu].Pipelines) :
              config[uu].Pipelines[pp].Enabled =>
                \E n \in 1..Len(rpcLog) : rpcLog[n].user = uu /\ rpcLog[n].pipeline = pp

C10_Witness ==
  /\ bpc = "exit"
  /\ Len(config) = 2
  /\ Len(config[1].Pipelines) = 2
  /\ Len(config[2].Pipelines) = 2
  /\ Len(results) = 4
  /\ results[1].Status = "failed"
  /\ results[1].Error.code = "Unknown"
  /\ results[2].Status = "success"
  /\ results[3].Status = "failed"
  /\ results[4].Status = "success"

BatchOver == bpc \in {"summary", "exit"}

\* the positions in results of the results of the uu-th user
ResultsOf(uu) == { k \in 1..Len(results) : results[k].UserID = config[uu].ID }

EntriesWith(uu, enabled) ==
  { pp \in 1..Len(config[uu].Pipelines) : config[uu].Pipelines[pp].Enabled = enabled }

\* the pipeline entries main has already passed
Processed ==
  { e \in UNION { { <<uu, pp>> : pp \in 1..Len(config[uu].Pipelines) } : uu \in 1..Len(config) } :
      EntryIndex(e[1], e[2]) <= Len(results) }

Max(a, b) == IF a > b THEN a ELSE b

C12_DisabledSkipped ==
  /\ \A n \in 1..Len(rpcLog) :
       config[rpcLog[n].user].Pipelines[rpcLog[n].pipeline].Enabled
  /\ \A e \in Processed :
       LET pipeline == config[e[1]].Pipelines[e[2]]
           result == results[EntryIndex(e[1], e[2])]
       IN /\ result.UserID = config[e[1]].ID
          /\ result.Pipeline = pipeline.Name
          /\ ~pipeline.Enabled <=> result.Status = "skipped"
          /\ ~pipeline.Enabled =>
               ~\E n \in 1..Len(rpcLog) : rpcLog[n].user = e[1] /\ rpcLog[n].pipeline = e[2]
  /\ BatchOver =>
       /\ Len(results) = TotalEntries
       /\ CountStatus(results, "skipped") = TotalEntries - Len(rpcLog)

C12_Witness ==
  /\ bpc = "exit"
  /\ Len(config) = 1
  /\ config[1].Credentials = [query |-> "golang", target_platform |-> "twitter"]
  /\ Len(config[1].Pipelines) = 2
  /\ config[1].Pipelines[1] = [Name |-> "cross_pollinator", Enabled |-> FALSE]
  /\ config[1].Pipelines[2] = [Name |-> "cross_pollinator", Enabled |-> TRUE]
  /\ results[1].Status = "skipped"
  /\ results[2].Status = "success"
  /\ Len(rpcLog) = 1

\* C13: in the summary the success, failed and skipped counts sum to the
\* number of (user, pipeline) entries of the configuration.
C13_SummaryCountsAddUp ==
  bpc = "exit" =>
    /\ summary.success + summary.failed + summary.skipped = TotalEntries
    /\ summary.total = TotalEntries

C13_Witness ==
  /\ bpc = "exit"
  /\ summary.success = 1
  /\ summary.failed = 2
  /\ summary.skipped = 1
  /\ TotalEntries = 4

\* C14: the process ends with a non-zero status exactly when some result has
\* status failed, and it ends only after the loop has passed every user and
\* every entry.
C14_ExitStatus ==
  /\ bpc = "exit" =>
       /\ exitCode # 0 <=> \E k \in 1..Len(results) : results[k].Status = "failed"
       /\ u = Len(config) + 1
       /\ Len(results) = TotalEntries
  /\ bpc # "exit" => exitCode = 0

C14_Witness ==
  /\ bpc = "exit"
  /\ exitCode = 1
  /\ Len(config) = 2
  /\ CountStatus(results, "failed") = 1
  /\ results[Len(results)].Status = "failed"
  /\ CountStatus(results, "success") = 2

\* C15: at most one RunPipeline call of the runner is in flight, it is the
\* last one issued, and main waits in it; the calls are issued in the order of
\* the configuration, so a call for a later user is issued only after every
\* call for the users before it has returned.
C15_CallsSerialized ==
  /\ \A n \in 1..Len(rpcLog) :
       ~rpcLog[n].returned => n = Len(rpcLog) /\ bpc = "call"
  /\ \A n, m \in 1..Len(rpcLog) :
       n < m =>
         \/ rpcLog[n].user < rpcLog[m].user
         \/ rpcLog[n].user = rpcLog[m].user /\ rpcLog[n].pipeline < rpcLog[m].pipeline
  /\ \A c \in Callers :
       pc[c] # "idle" =>
         /\ c = BatchCaller
         /\ bpc = "call"
         /\ req[c] = rpcLog[Len(rpcLog)].request

C15_Witness ==
  /\ bpc = "call"
  /\ pc[BatchCaller] = "publish"
  /\ Len(rpcLog) = 3
  /\ rpcLog[1].user = 1
  /\ rpcLog[2].user = 1
  /\ rpcLog[3].user = 2
  /\ rpcLog[1].returned
  /\ rpcLog[2].returned
  /\ ~rpcLog[3].returned

\* the number of delays main has taken when it stands at bpc with user index u
ExpectedSleeps ==
  IF bpc = "start" THEN 0
  ELSE IF bpc = "sleep" THEN u - 2
  ELSE IF u > Len(config) THEN Max(Len(config) - 1, 0)
  ELSE u - 1

\* C16: the delay is taken once before each user but the first, and at no
\* other point: the k-th delay precedes user k + 1, a delay starts only at the
\* head of a user's iteration with none of that user's pipelines processed,
\* and a finished run over n users has taken n - 1 delays (none for n = 0).
C16_DelayBetweenUsers ==
  /\ Len(sleeps) = ExpectedSleeps
  /\ \A k \in 1..Len(sleeps) : sleeps[k] = k + 1
  /\ bpc = "sleep" =>
       /\ u > 1
       /\ p = 1
       /\ Len(results) = EntriesBefore(u)

C16_Witness ==
  /\ bpc = "exit"
  /\ Len(config) = 2
  /\ Len(config[1].Pipelines) = 2
  /\ Len(config[2].Pipelines) = 2
  /\ Len(results) = 4
  /\ sleeps = <<2>>

\* C17: a trend_jacker request never issues a collaborator call and
\* RunPipeline returns no response and an Unimplemented failure for it, whose
\* class differs from the class of the failure returned for an unknown flow.
C17_UnimplementedFlow ==
  \A c \in Callers :
    pc[c] # "idle" /\ req[c].FlowName = "trend_jacker" =>
      /\ calls[c] = <<>>
      /\ pc[c] \in {"run", "done"}
      /\ Returned(c) =>
           /\ ret[c].res = NilResponse
           /\ ret[c].err.code = "Unimplemented"
           /\ \A d \in Callers :
                Returned(d) /\ req[d].FlowName \notin KnownFlows =>
                  ret[d].err.code # ret[c].err.code

C17_Witness ==
  \E c, d \in Callers :
    /\ Returned(c)
    /\ req[c].FlowName = "trend_jacker"
    /\ Lookup(req[c].Params, "query") = "golang"
    /\ Lookup(req[c].Params, "target_platform") = "twitter"
    /\ ret[c].err.code = "Unimplemented"
    /\ Returned(d)
    /\ req[d].FlowName = "bogus"

\* every RunPipeline call of the runner names its entry's flow and carries
\* every credential of its user unchanged
RequestsCarryCredentials ==
  /\ \A n \in 1..Len(rpcLog) :
       LET user == config[rpcLog[n].user]
           request == rpcLog[n].request
       IN /\ request.FlowName = user.Pipelines[rpcLog[n].pipeline].Name
          /\ \A k \in DOMAIN user.Credentials :
               /\ k \in DOMAIN request.Params
               /\ request.Params[k] = user.Credentials[k]
          /\ request.ModelProvider = modelProvider
          /\ ~rpcLog[n].returned => req[BatchCaller] = request
  /\ \A e \in Processed :
       config[e[1]].Pipelines[e[2]].Enabled =>
         \E n \in 1..Len(rpcLog) : rpcLog[n].user = e[1] /\ rpcLog[n].pipeline = e[2]

\* C18: every enabled pipeline entry main has passed has its RunPipeline
\* call; every such call has the flow_name of its entry and a parameter mapping holding every key/value pair of the
\* user's credentials unchanged, and no step of the run changes the
\* configuration.
C18_CredentialsForwarded ==
  /\ []RequestsCarryCredentials
  /\ [][config' = config]_vars

C18_Witness ==
  /\ bpc = "call"
  /\ pc[BatchCaller] = "run"
  /\ u = 2
  /\ config[2].Credentials = [access_token |-> "tok"]
  /\ config[2].Pipelines[p].Name = "facebook_echo"
  /\ req[BatchCaller].FlowName = "facebook_echo"
  /\ req[BatchCaller].Params = [access_token |-> "tok"]

\* the request parameters that are not parameters of the flow itself
CredentialParams(params) ==
  [k \in DOMAIN params \ {"query", "target_platform"} |-> params[k]]

\* C19: the credentials of every Publish request are the credentials that
\* came with the RunPipeline request parameters.
C19_PublishCredentials ==
  \A c \in Callers :
    \A n \in 1..Len(calls[c]) :
      CallOf(c, n, "Publish") =>
        \/ calls[c][n].request.Credentials = req[c].Params
        \/ calls[c][n].request.Credentials = CredentialParams(req[c].Params)

\* C20: every Fetch request carries, besides platform and query, the
\* caller's credentials and the item limit of the flow.
C20_FetchCarriesLimit ==
  \A c \in Callers :
    \A n \in 1..Len(calls[c]) :
      CallOf(c, n, "Fetch") =>
        LET request == calls[c][n].request
        IN /\ request.Platform = "reddit"
           /\ request.Query = Lookup(req[c].Params, "query")
           /\ "Credentials" \in DOMAIN request
           /\ "Limit" \in DOMAIN request
           /\ request.Credentials = CredentialParams(req[c].Params)
           /\ request.Limit = limit

\* the RunPipeline calls the runner issued for the pp-th entry of the uu-th user
CallsFor(uu, pp) ==
  { n \in 1..Len(rpcLog) : rpcLog[n].user = uu /\ rpcLog[n].pipeline = pp }

\* the result main recorded for the n-th RunPipeline call, once it returned
ResultOfCall(n) == results[EntryIndex(rpcLog[n].user, rpcLog[n].pipeline)]

\* C21: the runner issues at most one RunPipeline call per pipeline entry and
\* exactly one for an enabled entry it has passed; while the call is in flight
\* the deadline can end it; a call that returned a failure, the expired
\* deadline included, leaves a failed result carrying that failure, and no
\* second call follows for the entry.
C21_OneCallNoRetry ==
  /\ \A uu \in 1..Len(config) :
       \A pp \in 1..Len(config[uu].Pipelines) : Cardinality(CallsFor(uu, pp)) <= 1
  /\ \A e \in Processed :
       config[e[1]].Pipelines[e[2]].Enabled =>
         /\ Cardinality(CallsFor(e[1], e[2])) = 1
         /\ \A n \in CallsFor(e[1], e[2]) :
              /\ rpcLog[n].returned
              /\ rpcLog[n].ret.err # NoError =>
                   /\ ResultOfCall(n).Status = "failed"
                   /\ ResultOfCall(n).Error = rpcLog[n].ret.err
  /\ bpc = "call" /\ pc[BatchCaller] # "done" => ENABLED BatchDeadline

C21_Witness ==
  /\ bpc = "exit"
  /\ Len(config) = 1
  /\ Len(rpcLog) = 2
  /\ rpcLog[1].pipeline = 1
  /\ rpcLog[1].ret.err.code = "DeadlineExceeded"
  /\ results[1].Status = "failed"
  /\ rpcLog[2].pipeline = 2
  /\ results[2].Status = "success"

\* C24: the result recorded for an executed pipeline carries the time that
\* passed between the start of executePipeline and its return.
C24_DurationRecorded ==
  \A n \in 1..Len(rpcLog) :
    rpcLog[n].returned => ResultOfCall(n).Duration = rpcLog[n].elapsed

\* C25: the results are a prefix of the configuration's entries in their
\* order: users in the order of the configuration, each user's entries in the
\* order of its pipeline list, a skipped result at the position of its
\* disabled entry; a finished run has them all.
C25_ResultsInConfigOrder ==
  /\ Len(results) <= TotalEntries
  /\ \A k \in 1..Len(results) :
       \E e \in Processed :
         /\ EntryIndex(e[1], e[2]) = k
         /\ results[k].UserID = config[e[1]].ID
         /\ results[k].UserName = config[e[1]].Name
         /\ results[k].Pipeline = config[e[1]].Pipelines[e[2]].Name
         /\ results[k].Status = "skipped" <=> ~config[e[1]].Pipelines[e[2]].Enabled
  /\ \A k, l \in 1..Len(results) : k < l => results[k].UserID <= results[l].UserID
  /\ BatchOver => Len(results) = TotalEntries

C25_Witness ==
  /\ bpc = "exit"
  /\ Len(config) = 2
  /\ config[1].Pipelines =
       <<[Name |-> "cross_pollinator", Enabled |-> TRUE],
         [Name |-> "facebook_echo", Enabled |-> FALSE]>>
  /\ config[2].Pipelines =
       <<[Name |-> "facebook_echo", Enabled |-> FALSE],
         [Name |-> "cross_pollinator", Enabled |-> TRUE]>>
  /\ Len(results) = 4
  /\ results[1].Status = "success"
  /\ results[2].Status = "skipped"
  /\ results[3].Status = "skipped"
  /\ results[4].Status = "failed"

\* C30: the result of an executed pipeline has status success exactly when
\* RunPipeline returned no failure, whatever the response holds, and then its
\* output locators are the response's output_urls in their order; otherwise it
\* is failed, carries the failure and has no locators.
C30_SuccessIffNoError ==
  \A n \in 1..Len(rpcLog) :
    rpcLog[n].returned =>
      LET result == ResultOfCall(n)
          r == rpcLog[n].ret
      IN /\ result.Status \in {"success", "failed"}
         /\ result.Status = "success" <=> r.err = NoError
         /\ r.err = NoError =>
              /\ result.PostURLs = r.res.OutputUrls
              /\ result.Error = NoError
         /\ r.err # NoError =>
              /\ result.PostURLs = <<>>
              /\ result.Error = r.err

C30_Witness ==
  /\ bpc = "exit"
  /\ Len(rpcLog) = 2
  /\ rpcLog[1].ret.err = NoError
  /\ rpcLog[1].ret.res.Status = "completed"
  /\ rpcLog[1].ret.res.OutputUrls = <<>>
  /\ rpcLog[1].elapsed = 3
  /\ ResultOfCall(1).Status = "success"
  /\ ResultOfCall(1).PostURLs = <<>>
  /\ rpcLog[2].ret.res # NilResponse
  /\ rpcLog[2].ret.res.OutputUrls = <<"url2">>
  /\ ResultOfCall(2).Status = "success"
  /\ ResultOfCall(2).PostURLs = <<"url2">>

\* everything the dispatcher holds for the invocation of caller c
Slot(c) == <<pc[c], req[c], fetchRes[c], i[c], remixRes[c], outputURLs[c], ret[c], calls[c]>>

\* a returned response lists the locators of the invocation's own successful
\* Publish calls and nothing else, and two invocations with the same request
\* and the same collaborator responses return the same
OwnResultOnly ==
  /\ \A c \in Callers :
       Returned(c) /\ ret[c].res # NilResponse =>
         /\ Len(ret[c].res.OutputUrls) = Len(PublishedUrls(c))
         /\ \A k \in 1..Len(ret[c].res.OutputUrls) :
              \E n \in 1..Len(calls[c]) :
                /\ CallOf(c, n, "Publish")
                /\ calls[c][n].response = Ok(ret[c].res.OutputUrls[k])
  /\ \A c, d \in Callers :
       Returned(c) /\ Returned(d) /\ req[c] = req[d] /\ calls[c] = calls[d] => ret[c] = ret[d]

\* C22: whatever the interleaving of two invocations, the result of each is
\* determined by its own request and the responses to its own collaborator
\* calls, its output_urls are the locators of its own successful Publish
\* calls, and no step of one invocation changes anything of the other.
C22_InvocationsIsolated ==
  /\ []OwnResultOnly
  /\ [][\A c, d \in Callers : c # d => Slot(c)' = Slot(c) \/ Slot(d)' = Slot(d)]_vars

C22_Witness ==
  /\ Returned("c1")
  /\ Returned("c2")
  /\ req["c1"] = req["c2"]
  /\ ret["c1"].res # NilResponse
  /\ ret["c2"].res # NilResponse
  /\ ret["c1"].res.OutputUrls = <<"url1">>
  /\ ret["c2"].res.OutputUrls = <<"url2">>

EchoFlows == {"facebook_echo", "twitter_echo"}

\* C23: a facebook_echo or twitter_echo request is dispatched to a flow
\* handler: RunPipeline does not return the unknown-flow failure for it.
C23_EchoFlowsDispatched ==
  \A c \in Callers :
    Returned(c) /\ req[c].FlowName \in EchoFlows =>
      ~(ret[c].err.code = "InvalidArgument" /\ ret[c].err.msg = "unknown flow")

\* C26: a Publish call directly follows the successful Remix call of the same
\* item, carries that call's output as content and the target_platform
\* parameter as platform; every successful Remix call is followed by the
\* Publish call of its item, and an item whose Remix call failed or has not
\* returned has no Publish call.
C26_PublishFollowsTransform ==
  \A c \in Callers :
    \A n \in 1..Len(calls[c]) :
      /\ CallOf(c, n, "Publish") =>
           /\ CallOf(c, n - 1, "Remix")
           /\ calls[c][n - 1].item = calls[c][n].item
           /\ calls[c][n - 1].response.state = "ok"
           /\ calls[c][n].request.Content = calls[c][n - 1].response.val
           /\ calls[c][n].request.Platform = Lookup(req[c].Params, "target_platform")
      /\ CallOf(c, n, "Remix") =>
           IF calls[c][n].response.state = "ok"
             THEN /\ CallOf(c, n + 1, "Publish")
                  /\ calls[c][n + 1].item = calls[c][n].item
             ELSE ~\E m \in 1..Len(calls[c]) :
                     CallOf(c, m, "Publish") /\ calls[c][m].item = calls[c][n].item

C26_Witness ==
  \E c \in Callers :
    /\ Returned(c)
    /\ Len(fetchRes[c]) = 2
    /\ Len(calls[c]) = 3
    /\ calls[c][2].response = Ok("remixB")
    /\ calls[c][3].svc = "Publish"
    /\ calls[c][3].request.Content = "remixB"
    /\ calls[c][3].request.Platform = "twitter"
    /\ calls[c][3].response = Ok("url1")

InFlight(c) == pc[c] \in {"fetch", "remix", "publish"}

\* C27: in one invocation only the last collaborator call issued can be
\* waiting for its response, the invocation is then blocked in it, and the
\* calls follow the items' order, so every call of an item has returned
\* before the first call of the next item is issued.
C27_OneCallInFlight ==
  \A c \in Callers :
    /\ \A n \in 1..Len(calls[c]) :
         calls[c][n].response = Pending => n = Len(calls[c]) /\ InFlight(c)
    /\ InFlight(c) =>
         /\ Len(calls[c]) > 0
         /\ calls[c][Len(calls[c])].response = Pending
         /\ calls[c][Len(calls[c])].svc =
              (CASE pc[c] = "fetch" -> "Fetch"
                 [] pc[c] = "remix" -> "Remix"
                 [] pc[c] = "publish" -> "Publish")
    /\ \A n, m \in 1..Len(calls[c]) :
         n < m => calls[c][n].item <= calls[c][m].item

C27_Witness ==
  \E c \in Callers :
    /\ pc[c] = "publish"
    /\ Len(calls[c]) = 3
    /\ calls[c][1].response.state = "ok"
    /\ calls[c][2].response.state = "ok"
    /\ calls[c][3].response = Pending
    /\ \E d \in Callers : d # c /\ pc[d] = "remix"

RemixItems(c) == { calls[c][n].item : n \in { m \in 1..Len(calls[c]) : calls[c][m].svc = "Remix" } }

\* C28: the items handed to Remix are items of the Fetch result at indices
\* 1..min(limit, n), each with its own content, in increasing index; a
\* completed run has attempted exactly those indices, so a failed head item
\* is not replaced by a later item.
C28_HeadItemsInOrder ==
  \A c \in Callers :
    /\ \A n \in 1..Len(calls[c]) :
         CallOf(c, n, "Remix") =>
           /\ calls[c][n].item \in 1..Min(limit, Len(fetchRes[c]))
           /\ calls[c][n].request.OriginalContent = ContentToRemix(fetchRes[c][calls[c][n].item])
    /\ \A n, m \in 1..Len(calls[c]) :
         n < m /\ CallOf(c, n, "Remix") /\ CallOf(c, m, "Remix") =>
           calls[c][n].item < calls[c][m].item
    /\ Returned(c) /\ FetchSucceeded(c) =>
         RemixItems(c) = 1..Min(limit, Len(fetchRes[c]))

C28_Witness ==
  \E c \in Callers :
    /\ Returned(c)
    /\ Len(fetchRes[c]) = 2
    /\ fetchRes[c][1].SourceId = "p3"
    /\ fetchRes[c][2].SourceId = "p1"
    /\ Len(calls[c]) = 2
    /\ calls[c][2].svc = "Remix"
    /\ calls[c][2].request.OriginalContent = "sum3"
    /\ calls[c][2].response.state = "err"
    /\ RemixItems(c) = {1}

\* C29: a cross_pollinator run with both parameters issues its one Fetch call
\* first and no other Fetch call, and at most one Remix call and one Publish
\* call per item, also after a failure.
C29_NoRepeatedCalls ==
  \A c \in Callers :
    /\ pc[c] \notin {"idle", "run"}
    /\ req[c].FlowName = "cross_pollinator"
    /\ ~MissingParams(req[c].Params)
    => /\ CallOf(c, 1, "Fetch")
       /\ \A n \in 1..Len(calls[c]) : CallOf(c, n, "Fetch") => n = 1
       /\ \A n, m \in 1..Len(calls[c]) :
            /\ calls[c][n].svc = calls[c][m].svc
            /\ calls[c][n].item = calls[c][m].item
            => n = m
       /\ calls[c][1].response.state = "err" => Len(calls[c]) = 1

C29_Witness ==
  \E c \in Callers :
    /\ Returned(c)
    /\ Len(fetchRes[c]) = 2
    /\ Len(calls[c]) = 3
    /\ calls[c][2].response.state = "ok"
    /\ calls[c][3].response.state = "err"
    /\ \E d \in Callers :
         /\ Returned(d)
         /\ Len(calls[d]) = 1
         /\ calls[d][1].response.state = "err"

\* C31: every recorded result has status success, failed or skipped; a
\* failed one has a failure cause and no output locators, a success has no
\* failure cause, a skipped one has neither a cause nor locators.
C31_ResultWellFormed ==
  \A k \in 1..Len(results) :
    /\ results[k].Status \in {"success", "failed", "skipped"}
    /\ results[k].Status = "failed" =>
         /\ results[k].Error # NoError
         /\ results[k].PostURLs = <<>>
    /\ results[k].Status = "success" => results[k].Error = NoError
    /\ results[k].Status = "skipped" =>
         /\ results[k].Error = NoError
         /\ results[k].PostURLs = <<>>

C31_Witness ==
  /\ bpc = "exit"
  /\ Len(results) = 3
  /\ results[1].Status = "skipped"
  /\ results[2].Status = "failed"
  /\ results[2].Error.code = "Unknown"
  /\ results[2].Error.msg = "fetch failed"
  /\ results[3].Status = "success"
  /\ results[3].PostURLs = <<"url1">>

\* C32: a returned invocation has either a response and no failure or a
\* failure and no response, and a response always has status completed.
C32_ResponseOrFailure ==
  \A c \in Callers :
    Returned(c) =>
      /\ ret[c].res = NilResponse <=> ret[c].err # NoError
      /\ ret[c].res # NilResponse => ret[c].res.Status = "completed"

C32_Witness ==
  /\ Returned("c1")
  /\ ret["c1"].res # NilResponse
  /\ ret["c1"].err = NoError
  /\ ret["c1"].res.Status = "completed"
  /\ Returned("c2")
  /\ ret["c2"].res = NilResponse
  /\ ret["c2"].err.msg = "fetch failed"

\* C34: the parameters of every RunPipeline call of the runner are the
\* credential mapping of the call's own user, key by key: no other key, so no
\* credential of another user and nothing of an earlier call.
C34_OnlyOwnCredentials ==
  \A n \in 1..Len(rpcLog) :
    LET own == config[rpcLog[n].user].Credentials
        params == rpcLog[n].request.Params
    IN /\ DOMAIN params \subseteq DOMAIN own
       /\ \A k \in DOMAIN params : params[k] = own[k]
       /\ \A uu \in 1..Len(config) :
            \A k \in DOMAIN config[uu].Credentials \ DOMAIN own : k \notin DOMAIN params

C34_Witness ==
  /\ Len(config) = 2
  /\ config[1].Credentials = [query |-> "golang", target_platform |-> "twitter"]
  /\ config[2].Credentials = [access_token |-> "tok"]
  /\ Len(rpcLog) = 2
  /\ rpcLog[1].user = 1
  /\ rpcLog[1].returned
  /\ rpcLog[2].user = 2
  /\ rpcLog[2].request.Params = [access_token |-> "tok"]

HasEmptyParam(params) ==
  \E k \in {"query", "target_platform"} : k \in DOMAIN params /\ params[k] = ""

\* C35: a cross_pollinator request in which query or target_platform is
\* present with the empty string never issues a collaborator call and returns
\* no response and an InvalidArgument failure, the same return as that of a
\* request in which a required key is absent.
C35_EmptyParamLikeAbsent ==
  \A c \in Callers :
    pc[c] # "idle" /\ req[c].FlowName = "cross_pollinator" /\ HasEmptyParam(req[c].Params) =>
      /\ calls[c] = <<>>
      /\ pc[c] \in {"run", "done"}
      /\ Returned(c) =>
           /\ ret[c].res = NilResponse
           /\ ret[c].err.code = "InvalidArgument"
           /\ \A d \in Callers :
                /\ Returned(d)
                /\ req[d].FlowName = "cross_pollinator"
                /\ ("query" \notin DOMAIN req[d].Params
                      \/ "target_platform" \notin DOMAIN req[d].Params)
                => ret[d] = ret[c]

C35_Witness ==
  /\ Returned("c1")
  /\ req["c1"].FlowName = "cross_pollinator"
  /\ req["c1"].Params = [query |-> "", target_platform |-> "twitter"]
  /\ ret["c1"].err.code = "InvalidArgument"
  /\ Returned("c2")
  /\ req["c2"].FlowName = "cross_pollinator"
  /\ req["c2"].Params = [target_platform |-> "twitter"]

\* C33: an invocation of the dispatcher that has started returns (or its
\* caller has given it up at the deadline), a RunPipeline call of the runner
\* ends, and the runner reaches the summary with every user passed and every
\* entry's result recorded.
C33_Terminates ==
  /\ (pc[BatchCaller] = "run") ~> (pc[BatchCaller] \in {"done", "idle"})
  /\ (bpc = "call") ~> (bpc = "pipeline")
  /\ <>(bpc = "summary" /\ u = Len(config) + 1 /\ Len(results) = TotalEntries)

C33_Witness ==
  /\ bpc = "summary"
  /\ Len(config) = 2
  /\ Len(rpcLog) = 2
  /\ rpcLog[1].user = 1
  /\ rpcLog[2].user = 2
  /\ \A n \in 1..2 : rpcLog[n].ret.err.code # "DeadlineExceeded"
  /\ rpcLog[1].elapsed = 4
  /\ rpcLog[2].elapsed = 4

====
